---- MODULE Spec2Model ----
(***************************************************************************)
(* Model of the padboard cog (src/padboard/padboard.py): the dawnglare     *)
(* command (classify + encode + reply) and the two owner commands that     *)
(* replace the reference data at runtime (downloadtraining and             *)
(* downloadpixelfile).  The padvision module the cog imports is not part   *)
(* of the sources; its loaders and extractors are modelled from the        *)
(* written specification and are marked so where they are defined.         *)
(***************************************************************************)
EXTENDS Integers, Sequences, FiniteSets, TLC

VARIABLES
    orb_dir,            \* ORB_DATA_DIR on disk: path -> content (0 = no such file)
    pixel_file,         \* PIXEL_FILE_PATH on disk: a table, or "corrupt"
    orb_type_to_images, \* self.orb_type_to_images, the active Template Library
    hsv_pixels_to_orb,  \* self.hsv_pixels_to_orb, the active Color Lookup Table
    t_pc,               \* downloadtraining: position of the running command
    t_zip,              \* downloadtraining: the downloaded bundle
    t_said,             \* downloadtraining: last message the command said
    p_pc,               \* downloadpixelfile: position of the running command
    p_bytes,            \* downloadpixelfile: the downloaded bytes
    p_said,             \* downloadpixelfile: last message the command said
    reloads,            \* number of reload commands started so far
    t_pre,              \* history: template library and directory when downloadtraining started
    p_pre,              \* history: color table and pixel file when downloadpixelfile started
    image,              \* dawnglare: the image the last call classified
    dg_pc,              \* dawnglare: "idle", or "replied" while the call's locals are alive
    img_board,          \* dawnglare: board of the similarity extractor
    hsv_board,          \* dawnglare: board of the pixel-compare extractor
    board_text,         \* dawnglare: the encoded board string
    msg,                \* dawnglare: the messages the last call said
    runs,               \* number of dawnglare calls so far (encode specification)
    prior,              \* history: color board, text and messages of the call before the last
    cog,                \* setup: "unloaded", then "started" (cog added) or "failed" (setup raised)
    load_error,         \* setup: the loader that raised in __init__, or "none"
    badusers,           \* baduser settings: server -> (user -> list of strikes)
    role_ids,           \* baduser settings: server -> punishment role ids
    positive_role_ids,  \* baduser settings: server -> positive role ids
    update_channel,     \* baduser settings: server -> announcement channel, or "None"
    b_pc,               \* baduser: "idle", or "handled" while the last handler's record is kept
    ev,                 \* history: the event the last baduser handler handled
    sent,               \* history: the messages the last baduser handler sent, in order
    b_pre,              \* history: the strikes (badusers) before the last handler ran
    banned_users,       \* baduser settings: locally banned user -> reason
    logs,               \* baduser: author -> the deque of that author's logged messages
    arrived,            \* history: author -> the author's server-channel messages, oldest first
    strikes_private,    \* baduser settings: server -> whether its strikes are private
    toggles,            \* history: server -> the togglestrikeprivacy commands it has had
    report,             \* the frame of the report command: its position and its locals
    r_hist              \* history: what the running report saw of, and read from, each server

vars == <<orb_dir, pixel_file, orb_type_to_images, hsv_pixels_to_orb,
          t_pc, t_zip, t_said, p_pc, p_bytes, p_said, reloads, t_pre, p_pre,
          image, dg_pc, img_board, hsv_board, board_text, msg, runs, prior,
          cog, load_error, badusers, role_ids, positive_role_ids, update_channel,
          b_pc, ev, sent, b_pre, banned_users, logs, arrived,
          strikes_private, toggles, report, r_hist>>

padboardVars == <<orb_dir, pixel_file, orb_type_to_images, hsv_pixels_to_orb,
                  t_pc, t_zip, t_said, p_pc, p_bytes, p_said, reloads, t_pre, p_pre,
                  image, dg_pc, img_board, hsv_board, board_text, msg, runs, prior>>

startVars == <<cog, load_error>>

logVars == <<logs, arrived>>

reportVars == <<strikes_private, toggles, report, r_hist>>

baduserVars == <<badusers, role_ids, positive_role_ids, update_channel,
                 b_pc, ev, sent, b_pre, banned_users, logVars, reportVars>>

reloadVars == <<orb_dir, pixel_file, orb_type_to_images, hsv_pixels_to_orb,
                t_pc, t_zip, t_said, p_pc, p_bytes, p_said, reloads, t_pre, p_pre>>

(***************************************************************************)
(* Bounds of the model.                                                    *)
(***************************************************************************)
MaxShade == 2       \* template images and cell images are shades 1..MaxShade
MaxKey == 1         \* quantized color keys are 1..MaxKey
MaxReloads == 2     \* reload commands started in one behaviour
MaxRuns == 2        \* dawnglare calls in one behaviour of the encode specification
MaxStrikes == 3     \* strikes on record at one time, over all servers and users

(***************************************************************************)
(* Orb Type Catalog and board geometry (padvision; from the specification) *)
(***************************************************************************)
Rows == 5
Cols == 6

OrbTypes == {"Fire", "Water", "Wood", "Light", "Dark", "Heal", "Jammer", "Bomb", "Unknown"}

\* The single-character code the extractors put into a board for each type.
InternalCode(t) ==
    CASE t = "Fire" -> "r"
      [] t = "Water" -> "b"
      [] t = "Wood" -> "g"
      [] t = "Light" -> "l"
      [] t = "Dark" -> "d"
      [] t = "Heal" -> "h"
      [] t = "Jammer" -> "j"
      [] t = "Bomb" -> "o"
      [] t = "Unknown" -> "u"

\* A Board as the extractors return it: Rows rows of Cols internal codes.
CodeBoard(tb) == [r \in 1..Rows |-> [c \in 1..Cols |-> InternalCode(tb[r][c])]]

(***************************************************************************)
(* dawnglare, lines 144-156: encode the similarity board and build the     *)
(* reply.  Strings are sequences of one-character strings; a URL template  *)
(* "prefix{}" formatted with a text is the prefix followed by the text.    *)
(***************************************************************************)
DAWNGLARE_BOARD_TEMPLATE == "https://candyninja001.github.io/Puzzled/?patt="
MIRUGLARE_BOARD_TEMPLATE == "https://storage.googleapis.com/mirubot/websites/padsim/index.html?patt="

RECURSIVE JoinFrom(_, _)
JoinFrom(rows, i) ==
    IF i > Len(rows) THEN <<>> ELSE rows[i] \o JoinFrom(rows, i + 1)

\* ''.join(r) for every column instead of every row (a transposed walk).
JoinColumns(board) ==
    [k \in 1..(Len(board) * Len(board[1])) |->
        board[((k - 1) % Len(board)) + 1][((k - 1) \div Len(board)) + 1]]

\* ''.join([''.join(r) for r in img_board])
JoinRows(board) == JoinFrom(board, 1)

\* str.replace(old, new) on a string of single characters
StrReplace(text, old, new) ==
    [i \in 1..Len(text) |-> IF text[i] = old THEN new ELSE text[i]]

ReplaceBombWithFire(text) == StrReplace(text, "o", "r")

\* board_text.replace('o', 'x')
ReplaceBomb(text) == StrReplace(text, "o", "x")

\* TEMPLATE.format(board_text)
Format(template, text) == <<template>> \o text

BoardText(board) == ReplaceBomb(JoinRows(board))

\* The reply with the second link built from the pixel-compare board.
ReplyWithHsvLink(ib, hb) ==
    Format(DAWNGLARE_BOARD_TEMPLATE, BoardText(ib)) \o <<"\n">>
        \o Format(MIRUGLARE_BOARD_TEMPLATE, BoardText(hb))

\* msg = '{}\n{}'.format(img_url, img_url2)
Reply(ib, hb) ==
    LET text == BoardText(ib)
    IN  Format(DAWNGLARE_BOARD_TEMPLATE, text) \o <<"\n">>
            \o Format(MIRUGLARE_BOARD_TEMPLATE, text)

\* One bot.say per link.
SaidPerLink(ib, hb) ==
    <<Format(DAWNGLARE_BOARD_TEMPLATE, BoardText(ib)),
      Format(MIRUGLARE_BOARD_TEMPLATE, BoardText(ib))>>

\* await self.bot.say(msg): the messages one dawnglare call says.
Said(ib, hb) == <<Reply(ib, hb)>>

(***************************************************************************)
(* Boards the encode specification draws as the two results of classify.   *)
(***************************************************************************)
AltRows(a, b) == [r \in 1..Rows |-> [c \in 1..Cols |-> IF c % 2 = 1 THEN a ELSE b]]

OneOff(a, b, r0, c0) ==
    [r \in 1..Rows |-> [c \in 1..Cols |-> IF r = r0 /\ c = c0 THEN b ELSE a]]

BoardInputs ==
    {AltRows(a, b) : a \in OrbTypes, b \in OrbTypes}
        \cup {OneOff(a, b, r, c) : a \in {"Fire", "Bomb", "Unknown"}, b \in OrbTypes,
                                   r \in {1, Rows}, c \in {1, 2, Cols}}

HsvInputs == {AltRows(a, b) : a \in {"Water", "Bomb"}, b \in {"Fire", "Unknown"}}

NoBoard == <<>>

(***************************************************************************)
(* Persisted state.  ORB_DATA_DIR holds files directly in it (directory    *)
(* "") and files in per-orb-type subdirectories; a file's content is the   *)
(* shade of the image it holds, 0 standing for "no such file".             *)
(***************************************************************************)
TopPaths == {<<"", "a">>}
SubPathSeq == << <<"Fire", "a">>, <<"Water", "a">> >>
SubPaths == {SubPathSeq[i] : i \in 1..Len(SubPathSeq)}
Paths == TopPaths \cup SubPaths
\* The order in which a bundle lists (and extracts) its members.
PathSeq == << <<"", "a">> >> \o SubPathSeq

EmptyDir == [p \in Paths |-> 0]
Files(dir) == {p \in Paths : dir[p] # 0}

\* A downloaded bundle: the archive is unreadable, or it holds files.
CorruptZip == [valid |-> FALSE, files |-> EmptyDir]
\* A bundle holds per-type subdirectories; its images are of the newest shade.
Bundles ==
    {CorruptZip} \cup
    {[valid |-> TRUE, files |-> d] :
        d \in {e \in [Paths -> {0, MaxShade}] : \A p \in TopPaths : e[p] = 0}}

\* No bundle is held (the command's locals are gone).
NoZip == [valid |-> TRUE, files |-> EmptyDir]

\* zip_file.namelist(), in archive order
NameList(zip) == SelectSeq(PathSeq, LAMBDA p : zip.files[p] # 0)

\* A color table maps some of the quantized keys to the code of an orb type.
ColorKeys == 1..MaxKey
TableCodes == {"r"}
Tables == UNION {[D -> TableCodes] : D \in SUBSET ColorKeys}
EmptyTable == <<>>

\* The bytes of a table file: a readable table or not.
CorruptBytes == [valid |-> FALSE, table |-> EmptyTable]
TableBytes == {CorruptBytes} \cup {[valid |-> TRUE, table |-> t] : t \in Tables}
\* No bytes are held (the command's locals are gone).
NoBytes == CorruptBytes

(***************************************************************************)
(* padvision (from the specification, sections 4.1 to 4.5): the loaders    *)
(* and the two board extractors.                                           *)
(***************************************************************************)
\* load_orb_images_dir_to_map: the files of the per-type subdirectories, in
\* load order, each a Template with the type its subdirectory names.
LoadOrbImagesDirToMap(dir) ==
    LET present == SelectSeq(SubPathSeq, LAMBDA p : dir[p] # 0)
    IN  [i \in 1..Len(present) |-> [type |-> present[i][1], img |-> dir[present[i]]]]

\* load_hsv_to_orb: the table of a readable file (an unreadable one raises).
LoadHsvToOrb(bytes) == bytes.table

\* A cell image is a shade; its score against a template is the distance of
\* the two shades, smaller being better.
Distance(s, t) == IF s >= t THEN s - t ELSE t - s

\* The confidence threshold: a best match farther than this is Unknown.
MaxDistance == 1

\* Index of the best-scoring template, the first one among equals.
BestTemplate(templates, s) ==
    CHOOSE i \in 1..Len(templates) :
        /\ \A j \in 1..Len(templates) :
              Distance(s, templates[i].img) <= Distance(s, templates[j].img)
        /\ \A j \in 1..(i - 1) :
              Distance(s, templates[j].img) > Distance(s, templates[i].img)

SimilarityCell(templates, s) ==
    IF Len(templates) = 0 THEN "u"
    ELSE LET i == BestTemplate(templates, s)
         IN  IF Distance(s, templates[i].img) > MaxDistance THEN "u"
             ELSE InternalCode(templates[i].type)

\* SimilarityBoardExtractor(orb_type_to_images, img).get_board()
SimilarityBoard(templates, img) ==
    [r \in 1..Rows |-> [c \in 1..Cols |-> SimilarityCell(templates, img[r][c])]]

\* The quantized color key of a cell's sample.
Quantize(s) == s

PixelCell(table, s) ==
    IF Quantize(s) \in DOMAIN table THEN table[Quantize(s)] ELSE "u"

\* PixelCompareBoardExtractor(hsv_pixels_to_orb, img_hsv).get_board()
PixelBoard(table, img) ==
    [r \in 1..Rows |-> [c \in 1..Cols |-> PixelCell(table, img[r][c])]]

\* classify returning the similarity extractor's board alone.
ClassifySimilarityOnly(images, table, img) ==
    [img_board |-> SimilarityBoard(images, img), hsv_board |-> NoBoard]

\* classify giving the image to the similarity extractor twice.
ClassifyBothBySimilarity(images, table, img) ==
    [img_board |-> SimilarityBoard(images, img), hsv_board |-> SimilarityBoard(images, img)]

\* The library passed to the extractor in the reverse of its load order.
Reversed(seq) == [i \in 1..Len(seq) |-> seq[Len(seq) + 1 - i]]

ClassifyReversedLibrary(images, table, img) ==
    [img_board |-> SimilarityBoard(Reversed(images), img),
     hsv_board |-> PixelBoard(table, img)]

\* classify, lines 179-190: the decoded image is given to the similarity
\* extractor with the active library and, converted to HSV, to the
\* pixel-compare extractor with the active table; both boards are returned.
Classify(images, table, img) ==
    [img_board |-> SimilarityBoard(images, img), hsv_board |-> PixelBoard(table, img)]

\* Decoded images the model classifies: cells of shades 1..MaxShade+1, so
\* that a cell can match exactly, nearly, or not at all.
ImageInputs == {AltRows(s, s + 1) : s \in 1..MaxShade}

(***************************************************************************)
(* downloadtraining (lines 92-115).  The command runs between its awaits   *)
(* without interruption; every await is a point where dawnglare or the     *)
(* other reload command may run.  An exception ends the command; its       *)
(* outcome is recorded as "raised".                                        *)
(***************************************************************************)
\* clear_training_folder, lines 59-66: unlink every entry of ORB_DATA_DIR
\* that is a file; `failed` are the files whose unlink raised (the
\* exception is printed and the loop goes on).
ClearTrainingFolder(dir, failed) ==
    [p \in Paths |-> IF p \in TopPaths /\ p \notin failed THEN 0 ELSE dir[p]]

\* zip_file.extractall(ORB_DATA_DIR), stopped after the first n members.
ExtractFirst(dir, zip, n) ==
    [p \in Paths |->
        IF \E i \in 1..n : NameList(zip)[i] = p THEN zip.files[p] ELSE dir[p]]

\* lines 96-97: say 'starting download', start the request
DownloadTrainingStart ==
    /\ cog = "started"
    /\ dg_pc = "idle"
    /\ t_pc = "idle"
    /\ reloads < MaxReloads
    /\ reloads' = reloads + 1
    /\ t_pc' = "get"
    /\ t_said' = "starting download"
    /\ t_pre' = [images |-> orb_type_to_images, dir |-> orb_dir]
    /\ UNCHANGED <<orb_dir, pixel_file, orb_type_to_images, hsv_pixels_to_orb, t_zip,
                   p_pc, p_bytes, p_said, p_pre,
                   image, dg_pc, img_board, hsv_board, board_text, msg, runs, prior>>
    /\ UNCHANGED <<startVars, baduserVars>>

\* The response handled with the folder cleared before the status is
\* looked at.
TrainingResponseClearingFirst(status, dir) ==
    IF status # 200
    THEN [said |-> "download failed", pc |-> "idle", dir |-> ClearTrainingFolder(dir, {})]
    ELSE [said |-> "starting download", pc |-> "read", dir |-> ClearTrainingFolder(dir, {})]

\* lines 97-102: on a non-success status say 'download failed' and return;
\* otherwise go on to read the body
TrainingResponse(status, dir) ==
    IF status # 200
    THEN [said |-> "download failed", pc |-> "idle", dir |-> dir]
    ELSE [said |-> "starting download", pc |-> "read", dir |-> dir]

\* lines 97-100: the response arrives
DownloadTrainingResponse ==
    /\ dg_pc = "idle"
    /\ t_pc = "get"
    /\ \E status \in {200, 404} :
        LET out == TrainingResponse(status, orb_dir)
        IN  /\ t_said' = out.said
            /\ t_pc' = out.pc
            /\ orb_dir' = out.dir
    /\ UNCHANGED <<pixel_file, orb_type_to_images, hsv_pixels_to_orb, t_zip,
                   p_pc, p_bytes, p_said, reloads, t_pre, p_pre,
                   image, dg_pc, img_board, hsv_board, board_text, msg, runs, prior>>
    /\ UNCHANGED <<startVars, baduserVars>>

\* The bundle handled with the folder cleared before the bundle's file
\* list is looked at.
TrainingReadClearingFirst(zip, dir) ==
    IF ~zip.valid
    THEN [said |-> "raised", pc |-> "idle", zip |-> NoZip, dir |-> dir]
    ELSE IF Len(NameList(zip)) = 0
    THEN [said |-> "empty zip file?", pc |-> "idle", zip |-> NoZip,
          dir |-> ClearTrainingFolder(dir, {})]
    ELSE [said |-> "deleting existing files and unzipping files", pc |-> "extract",
          zip |-> zip, dir |-> ClearTrainingFolder(dir, {})]

\* lines 102-110: ZipFile(...) raises on an unreadable archive; a bundle
\* without files is refused with 'empty zip file?'; otherwise the command
\* announces the replacement
TrainingRead(zip, dir) ==
    IF ~zip.valid
    THEN [said |-> "raised", pc |-> "idle", zip |-> NoZip, dir |-> dir]
    ELSE IF Len(NameList(zip)) = 0
    THEN [said |-> "empty zip file?", pc |-> "idle", zip |-> NoZip, dir |-> dir]
    ELSE [said |-> "deleting existing files and unzipping files", pc |-> "extract",
          zip |-> zip, dir |-> dir]

\* lines 102-110: the body arrives, the archive is opened and listed
DownloadTrainingRead ==
    /\ dg_pc = "idle"
    /\ t_pc = "read"
    /\ \E zip \in Bundles :
        LET out == TrainingRead(zip, orb_dir)
        IN  /\ t_said' = out.said
            /\ t_pc' = out.pc
            /\ t_zip' = out.zip
            /\ orb_dir' = out.dir
    /\ UNCHANGED <<pixel_file, orb_type_to_images, hsv_pixels_to_orb,
                   p_pc, p_bytes, p_said, reloads, t_pre, p_pre,
                   image, dg_pc, img_board, hsv_board, board_text, msg, runs, prior>>
    /\ UNCHANGED <<startVars, baduserVars>>

\* The folder cleared and the bundle extracted, the active library being
\* emptied in place along with the folder.
TrainingExtractInPlace(dir, images, zip, failed, n) ==
    LET cleared == ClearTrainingFolder(dir, failed)
    IN  IF n = Len(NameList(zip))
        THEN [said |-> "done extracting", pc |-> "load", zip |-> zip,
              dir |-> ExtractFirst(cleared, zip, n), images |-> <<>>]
        ELSE [said |-> "raised", pc |-> "idle", zip |-> NoZip,
              dir |-> ExtractFirst(cleared, zip, n), images |-> <<>>]

\* lines 111-113: clear_training_folder, then extractall, which either
\* extracts every member or raises at member n + 1; the active library is
\* not touched
TrainingExtract(dir, images, zip, failed, n) ==
    LET cleared == ClearTrainingFolder(dir, failed)
    IN  IF n = Len(NameList(zip))
        THEN [said |-> "done extracting", pc |-> "load", zip |-> zip,
              dir |-> ExtractFirst(cleared, zip, n), images |-> images]
        ELSE [said |-> "raised", pc |-> "idle", zip |-> NoZip,
              dir |-> ExtractFirst(cleared, zip, n), images |-> images]

\* lines 111-113: clear the folder, extract the bundle over it
DownloadTrainingExtract ==
    /\ dg_pc = "idle"
    /\ t_pc = "extract"
    /\ \E failed \in SUBSET (TopPaths \cap Files(orb_dir)) :
       \E n \in 0..Len(NameList(t_zip)) :
        LET out == TrainingExtract(orb_dir, orb_type_to_images, t_zip, failed, n)
        IN  /\ t_said' = out.said
            /\ t_pc' = out.pc
            /\ t_zip' = out.zip
            /\ orb_dir' = out.dir
            /\ orb_type_to_images' = out.images
    /\ UNCHANGED <<pixel_file, hsv_pixels_to_orb,
                   p_pc, p_bytes, p_said, reloads, t_pre, p_pre,
                   image, dg_pc, img_board, hsv_board, board_text, msg, runs, prior>>
    /\ UNCHANGED <<startVars, baduserVars>>

\* The reload done as __init__ does it: both resources loaded again.
TrainingReloadBoth(loaded, dir, images, table, file) ==
    IF loaded
    THEN [said |-> "done reloading", images |-> LoadOrbImagesDirToMap(dir),
          table |-> IF file.valid THEN LoadHsvToOrb(file) ELSE table]
    ELSE [said |-> "raised", images |-> images, table |-> table]

\* lines 114-115: load the directory and assign self.orb_type_to_images;
\* when the loader raises, the assignment never happens
TrainingReload(loaded, dir, images, table, file) ==
    IF loaded
    THEN [said |-> "done reloading", images |-> LoadOrbImagesDirToMap(dir),
          table |-> table]
    ELSE [said |-> "raised", images |-> images, table |-> table]

\* lines 114-115: load the directory and replace the active library
DownloadTrainingReload ==
    /\ dg_pc = "idle"
    /\ t_pc = "load"
    /\ t_pc' = "idle"
    /\ t_zip' = NoZip
    /\ \E loaded \in BOOLEAN :
        LET out == TrainingReload(loaded, orb_dir, orb_type_to_images,
                                  hsv_pixels_to_orb, pixel_file)
        IN  /\ t_said' = out.said
            /\ orb_type_to_images' = out.images
            /\ hsv_pixels_to_orb' = out.table
    /\ UNCHANGED <<orb_dir, pixel_file,
                   p_pc, p_bytes, p_said, reloads, t_pre, p_pre,
                   image, dg_pc, img_board, hsv_board, board_text, msg, runs, prior>>
    /\ UNCHANGED <<startVars, baduserVars>>

(***************************************************************************)
(* downloadpixelfile (lines 70-88).                                        *)
(***************************************************************************)
\* lines 72-73
DownloadPixelFileStart ==
    /\ cog = "started"
    /\ dg_pc = "idle"
    /\ p_pc = "idle"
    /\ reloads < MaxReloads
    /\ reloads' = reloads + 1
    /\ p_pc' = "get"
    /\ p_said' = "starting download"
    /\ p_pre' = [table |-> hsv_pixels_to_orb, file |-> pixel_file]
    /\ UNCHANGED <<orb_dir, pixel_file, orb_type_to_images, hsv_pixels_to_orb, p_bytes,
                   t_pc, t_zip, t_said, t_pre,
                   image, dg_pc, img_board, hsv_board, board_text, msg, runs, prior>>
    /\ UNCHANGED <<startVars, baduserVars>>

\* lines 73-80: the response arrives; on success the body is read
DownloadPixelFileResponse ==
    /\ dg_pc = "idle"
    /\ p_pc = "get"
    /\ \E status \in {200, 404} :
        IF status # 200
        THEN /\ p_said' = "download failed"
             /\ p_pc' = "idle"
        ELSE /\ p_pc' = "read"
             /\ UNCHANGED p_said
    /\ UNCHANGED <<orb_dir, pixel_file, orb_type_to_images, hsv_pixels_to_orb, p_bytes,
                   t_pc, t_zip, t_said, reloads, t_pre, p_pre,
                   image, dg_pc, img_board, hsv_board, board_text, msg, runs, prior>>
    /\ UNCHANGED <<startVars, baduserVars>>

\* lines 78-80: the body arrives
DownloadPixelFileRead ==
    /\ dg_pc = "idle"
    /\ p_pc = "read"
    /\ \E bytes \in TableBytes :
        /\ p_bytes' = bytes
        /\ p_said' = "deleting existing file and replacing with file"
        /\ p_pc' = "write"
    /\ UNCHANGED <<orb_dir, pixel_file, orb_type_to_images, hsv_pixels_to_orb,
                   t_pc, t_zip, t_said, reloads, t_pre, p_pre,
                   image, dg_pc, img_board, hsv_board, board_text, msg, runs, prior>>
    /\ UNCHANGED <<startVars, baduserVars>>

\* lines 82-86: the file is opened for writing (truncated) and written
DownloadPixelFileWrite ==
    /\ dg_pc = "idle"
    /\ p_pc = "write"
    /\ \E written \in BOOLEAN :
        IF written
        THEN /\ pixel_file' = p_bytes
             /\ p_said' = "done saving"
             /\ p_pc' = "load"
             /\ UNCHANGED p_bytes
        ELSE \* the write raised after the file was truncated
             /\ pixel_file' = CorruptBytes
             /\ p_said' = "raised"
             /\ p_pc' = "idle"
             /\ p_bytes' = NoBytes
    /\ UNCHANGED <<orb_dir, orb_type_to_images, hsv_pixels_to_orb,
                   t_pc, t_zip, t_said, reloads, t_pre, p_pre,
                   image, dg_pc, img_board, hsv_board, board_text, msg, runs, prior>>
    /\ UNCHANGED <<startVars, baduserVars>>

\* The reload assigning an empty table when the file does not load.
PixelReloadEmptyOnError(file, table) ==
    IF file.valid
    THEN [said |-> "done reloading", table |-> LoadHsvToOrb(file)]
    ELSE [said |-> "raised", table |-> EmptyTable]

\* lines 87-88: load the file and assign self.hsv_pixels_to_orb; when
\* load_hsv_to_orb raises, the assignment never happens
PixelReload(file, table) ==
    IF file.valid
    THEN [said |-> "done reloading", table |-> LoadHsvToOrb(file)]
    ELSE [said |-> "raised", table |-> table]

\* lines 87-88: load the file and replace the active table
DownloadPixelFileReload ==
    /\ dg_pc = "idle"
    /\ p_pc = "load"
    /\ p_pc' = "idle"
    /\ p_bytes' = NoBytes
    /\ LET out == PixelReload(pixel_file, hsv_pixels_to_orb)
       IN  /\ p_said' = out.said
           /\ hsv_pixels_to_orb' = out.table
    /\ UNCHANGED <<orb_dir, pixel_file, orb_type_to_images,
                   t_pc, t_zip, t_said, reloads, t_pre, p_pre,
                   image, dg_pc, img_board, hsv_board, board_text, msg, runs, prior>>
    /\ UNCHANGED <<startVars, baduserVars>>

(***************************************************************************)
(* dawnglare (lines 131-156) with get_recent_image (158-177) and classify  *)
(* (179-190).  After the image download the command runs to its reply      *)
(* without an await.  The await of the reply touches no shared state, so   *)
(* the model lets the command return before the next step of a reload.     *)
(***************************************************************************)
\* lines 165-175: no image found, or its download failed
DawnglareNoImage ==
    /\ cog = "started"
    /\ dg_pc = "idle"
    /\ dg_pc' = "replied"
    /\ \E why \in {"Couldn't find an image in your recent messages.", "failed to download"} :
        msg' = <<why>>
    /\ UNCHANGED <<image, img_board, hsv_board, board_text, runs, prior>>
    /\ UNCHANGED reloadVars
    /\ UNCHANGED <<startVars, baduserVars>>

\* dawnglare waiting for a lock the reload commands hold across their awaits.
CanClassifyWhenNoReload ==
    /\ cog = "started"
    /\ dg_pc = "idle"
    /\ t_pc = "idle" /\ p_pc = "idle"

\* dawnglare, lines 131-141, and classify, lines 179-190: the command is
\* served whenever the cog is loaded; it acquires nothing and waits for
\* nothing but its own image download (the model runs one call at a time)
CanClassify ==
    /\ cog = "started"
    /\ dg_pc = "idle"

\* lines 138-156: the image is classified against the two active snapshots
\* and the reply is said
Dawnglare ==
    /\ CanClassify
    /\ dg_pc' = "replied"
    /\ \E img \in ImageInputs :
        LET out == Classify(orb_type_to_images, hsv_pixels_to_orb, img)
            ib == out.img_board
            hb == out.hsv_board
        IN  /\ image' = img
            /\ img_board' = ib
            /\ hsv_board' = hb
            /\ board_text' = BoardText(ib)
            /\ msg' = Said(ib, hb)
    /\ UNCHANGED <<runs, prior>>
    /\ UNCHANGED reloadVars
    /\ UNCHANGED <<startVars, baduserVars>>

\* The reply is sent and the command returns: its locals are gone.
DawnglareReturn ==
    /\ dg_pc = "replied"
    /\ dg_pc' = "idle"
    /\ image' = <<>>
    /\ img_board' = NoBoard
    /\ hsv_board' = NoBoard
    /\ board_text' = <<>>
    /\ msg' = <<>>
    /\ UNCHANGED <<runs, prior>>
    /\ UNCHANGED reloadVars
    /\ UNCHANGED <<startVars, baduserVars>>

(***************************************************************************)
(* The baduser cog (src/baduser/baduser.py): the settings it persists, the *)
(* strike commands and the member listeners.  Every handler reads and      *)
(* writes the settings before its first await, so a handler is one step;   *)
(* the messages it then sends are recorded in `sent` until it returns.     *)
(* A message is the sequence of the parts its format string joins.  The    *)
(* message listener keeps the last messages of every author, and an        *)
(* automatic strike quotes the author's log.                               *)
(***************************************************************************)
Servers == {"s1", "s2"}
Users == {"u1", "u2"}
Roles == {"muted", "helper"}
Channels == {"c1"}

\* The servers whose moderators configure the cog, the roles they designate
\* as punishment / as positive roles, the users the owner bans locally, and
\* what a moderator writes in a strike.
ConfiguredServers == {"s1"}
NegativeCandidates == {"muted"}
PositiveCandidates == {"helper"}
BanCandidates == {"u2"}
BanReasons == {"spam"}
StrikeTexts == {"rude"}
Timestamps == {"2017-01-01 12:00:00"}
Moderator == "mod"
BotUser == "bot"
Authors == Users \cup {BotUser}
LOGS_PER_USER == 10
MaxMessages == 11       \* server-channel messages logged in one behaviour
MaxLogStrikes == 1      \* strikes on record in the log and report specifications
MaxToggles == 2         \* togglestrikeprivacy commands a server has in one behaviour
GlobalBanLists == SUBSET BanCandidates
MemberOrders == {<<"u1", "u2">>}

\* All orders in which a set can be iterated.
Orders(S) ==
    {f \in [1..Cardinality(S) -> S] : \A i, j \in 1..Cardinality(S) : f[i] = f[j] => i = j}

\* getBadUsers, lines 483-487
GetBadUsers(bu, server_id) == bu[server_id]

\* updateBadUser with the message put in front of the list.
UpdateBadUserPrepending(bu, server_id, user_id, m) ==
    [bu EXCEPT ![server_id] =
        IF user_id \in DOMAIN bu[server_id]
        THEN [bu[server_id] EXCEPT ![user_id] = <<m>> \o bu[server_id][user_id]]
        ELSE [u \in DOMAIN bu[server_id] \cup {user_id} |->
                 IF u = user_id THEN <<m>> ELSE bu[server_id][u]]]

\* updateBadUser, lines 525-531: badusers[user_id].append(msg), the list
\* being created first when the user has none
UpdateBadUser(bu, server_id, user_id, m) ==
    [bu EXCEPT ![server_id] =
        IF user_id \in DOMAIN bu[server_id]
        THEN [bu[server_id] EXCEPT ![user_id] = Append(bu[server_id][user_id], m)]
        ELSE [u \in DOMAIN bu[server_id] \cup {user_id} |->
                 IF u = user_id THEN <<m>> ELSE bu[server_id][u]]]

\* countUserStrikes, lines 533-538
CountUserStrikes(bu, server_id, user_id) ==
    IF user_id \notin DOMAIN GetBadUsers(bu, server_id) THEN 0
    ELSE Len(GetBadUsers(bu, server_id)[user_id])

\* getUserStrikes, lines 550-552
GetUserStrikes(bu, server_id, user_id) ==
    IF user_id \in DOMAIN GetBadUsers(bu, server_id)
    THEN GetBadUsers(bu, server_id)[user_id] ELSE <<>>

\* clearUserStrikes, lines 545-548: badusers.pop(user_id, None)
ClearUserStrikes(bu, server_id, user_id) ==
    [bu EXCEPT ![server_id] =
        [u \in DOMAIN bu[server_id] \ {user_id} |-> bu[server_id][u]]]

\* getChannel, lines 565-567
GetChannel(channels, server_id) == channels[server_id]

\* All strikes recorded, over every server and user (the model's bound).
RECURSIVE SumStrikes(_, _)
SumStrikes(bu, slots) ==
    IF slots = {} THEN 0
    ELSE LET x == CHOOSE y \in slots : TRUE
         IN  CountUserStrikes(bu, x[1], x[2]) + SumStrikes(bu, slots \ {x})

TotalStrikes(bu) == SumStrikes(bu, Servers \X Users)

\* A message sent to a channel or a member, or said in reply to a command.
Message(to, text) == [to |-> to, text |-> text]

HERE == "@here"

\* The strike a punishment role records, lines 417-419
BadUserStrike(user, role_name, latest_messages) ==
    <<"Name=", user, " Role=", role_name, latest_messages>>

\* The strike addstrike records, lines 154-156
ManualStrike(author, timestamp, strike_text) ==
    <<"Manually added by ", author, " (", timestamp, "): ", strike_text>>

\* recordBadUser, lines 415-438: the strike quotes the member's log as it is
\* when the handler starts; the strike is recorded whether or not a
\* channel is set; with a channel, the four announcements, the notice to
\* the member and its outcome are sent
RecordBadUser(bu, channels, user_logs, server, user, role_name, dm_ok) ==
    LET latest_messages == user_logs[user]
        strike == BadUserStrike(user, role_name, latest_messages)
        after == UpdateBadUser(bu, server, user, strike)
        strikes == CountUserStrikes(after, server, user)
        ch == GetChannel(channels, server)
    IN  [badusers |-> after,
         sent |->
            IF ch = "None" THEN <<>>
            ELSE << Message(ch, <<"Detected bad user">>),
                    Message(ch, strike),
                    Message(ch, <<"Hey ", HERE,
                                  " please leave a note explaining why this user is punished">>),
                    Message(ch, <<"This user now has ", ToString(strikes), " strikes">>) >>
                 \o (IF dm_ok
                     THEN << Message(user, <<"You were assigned the punishment role ",
                                             role_name>>),
                             Message(ch, <<"User successfully notified">>) >>
                     ELSE << Message(ch, <<"Failed to notify the user! I might be blocked">>) >>)]

\* recordRoleChange, lines 440-451
RecordRoleChange(bu, channels, server, user, role_name, is_added) ==
    LET ch == GetChannel(channels, server)
    IN  [badusers |-> bu,
         sent |->
            IF ch = "None" THEN <<>>
            ELSE << Message(ch, <<"Detected role ", IF is_added THEN "Added" ELSE "Removed",
                                  " : Name=", user, " Role=", role_name>>),
                    Message(ch, <<"Hey ", HERE,
                                  " please leave a note explaining why this role was modified">>) >>]

\* Index of the first role of an iteration order that is in a set, or 0.
FirstIn(order, S) ==
    IF \E i \in 1..Len(order) : order[i] \in S
    THEN CHOOSE i \in 1..Len(order) :
            order[i] \in S /\ \A j \in 1..(i - 1) : order[j] \notin S
    ELSE 0

\* check_punishment, lines 391-413.  new_order and removed_order are the
\* orders in which the two set differences are iterated.  The first added
\* role that is a punishment or a positive role decides, punishment being
\* looked at first for it; only when no added role is designated are the
\* removed roles looked at, and only for positive ones.
CheckPunishmentOutcome(bu, channels, user_logs, bad, positive, server, user, before, after, new_order, removed_order, dm_ok) ==
    LET n == FirstIn(new_order, bad \cup positive)
        r == FirstIn(removed_order, positive)
    IN  IF before = after THEN [badusers |-> bu, sent |-> <<>>]
        ELSE IF n # 0 /\ new_order[n] \in bad
        THEN RecordBadUser(bu, channels, user_logs, server, user, new_order[n], dm_ok)
        ELSE IF n # 0
        THEN RecordRoleChange(bu, channels, server, user, new_order[n], TRUE)
        ELSE IF r # 0
        THEN RecordRoleChange(bu, channels, server, user, removed_order[r], FALSE)
        ELSE [badusers |-> bu, sent |-> <<>>]

\* The event a handler handled.
Event(op, server, user, before, after) ==
    [op |-> op, server |-> server, user |-> user, before |-> before, after |-> after]

NoEvent == Event("none", "none", "none", {}, {})

\* on_member_update: check_punishment
CheckPunishment ==
    /\ b_pc = "idle"
    /\ \E server \in Servers, user \in Users, before \in SUBSET Roles, after \in SUBSET Roles :
       \E new_order \in Orders(after \ before), removed_order \in Orders(before \ after),
          dm_ok \in BOOLEAN :
        LET out == CheckPunishmentOutcome(badusers, update_channel, logs, role_ids[server],
                                          positive_role_ids[server], server, user,
                                          before, after, new_order, removed_order, dm_ok)
        IN  /\ TotalStrikes(out.badusers) <= MaxStrikes
            /\ badusers' = out.badusers
            /\ sent' = out.sent
            /\ ev' = Event("update", server, user, before, after)
    /\ b_pre' = badusers
    /\ b_pc' = "handled"
    /\ UNCHANGED <<role_ids, positive_role_ids, update_channel, banned_users>>
    /\ UNCHANGED <<padboardVars, startVars, logVars, reportVars>>

\* The leave announced without looking at the strike count.
LeftAnnouncingAll(bu, channels, server, user) ==
    IF GetChannel(channels, server) # "None"
    THEN << Message(GetChannel(channels, server),
                    <<"FYI: A user with ", ToString(CountUserStrikes(bu, server, user)),
                      " strikes just left the server: ", user>>) >>
    ELSE <<>>

\* mod_user_left, lines 363-371
ModUserLeftSent(bu, channels, server, user) ==
    IF CountUserStrikes(bu, server, user) # 0 /\ GetChannel(channels, server) # "None"
    THEN << Message(GetChannel(channels, server),
                    <<"FYI: A user with ", ToString(CountUserStrikes(bu, server, user)),
                      " strikes just left the server: ", user>>) >>
    ELSE <<>>

\* on_member_remove: mod_user_left
ModUserLeft ==
    /\ b_pc = "idle"
    /\ \E server \in Servers, user \in Users :
        /\ sent' = ModUserLeftSent(badusers, update_channel, server, user)
        /\ ev' = Event("left", server, user, {}, {})
    /\ b_pre' = badusers
    /\ b_pc' = "handled"
    /\ UNCHANGED <<badusers, role_ids, positive_role_ids, update_channel, banned_users>>
    /\ UNCHANGED <<padboardVars, startVars, logVars, reportVars>>

\* mod_user_join, lines 373-389: nothing without a channel; one
\* announcement for strikes and one for a local ban
ModUserJoinSent(bu, channels, banned, server, user) ==
    LET ch == GetChannel(channels, server)
        strikes == CountUserStrikes(bu, server, user)
    IN  IF ch = "None" THEN <<>>
        ELSE (IF strikes # 0
              THEN << Message(ch, <<"Hey ", HERE, " a user with ", ToString(strikes),
                                    " strikes just joined the server: ", user>>) >>
              ELSE <<>>)
             \o
             (IF user \in DOMAIN banned
              THEN << Message(ch, <<"Hey ", HERE, " locally banned user ", user,
                                    " (for: ", banned[user], ") just joined the server">>) >>
              ELSE <<>>)

\* on_member_join: mod_user_join
ModUserJoin ==
    /\ b_pc = "idle"
    /\ \E server \in Servers, user \in Users :
        /\ sent' = ModUserJoinSent(badusers, update_channel, banned_users, server, user)
        /\ ev' = Event("join", server, user, {}, {})
    /\ b_pre' = badusers
    /\ b_pc' = "handled"
    /\ UNCHANGED <<badusers, role_ids, positive_role_ids, update_channel, banned_users>>
    /\ UNCHANGED <<padboardVars, startVars, logVars, reportVars>>

\* addstrike, lines 150-160
AddStrikeOutcome(bu, server, user, author, timestamp, strike_text) ==
    LET after == UpdateBadUser(bu, server, user, ManualStrike(author, timestamp, strike_text))
    IN  [badusers |-> after,
         sent |-> << Message("ctx", <<"Done. User ", user, " now has ",
                                      ToString(CountUserStrikes(after, server, user)),
                                      " strikes">>) >>]

\* [p]baduser addstrike <user> <strike_text>
AddStrike ==
    /\ b_pc = "idle"
    /\ TotalStrikes(badusers) < MaxStrikes
    /\ \E server \in Servers, user \in Users, timestamp \in Timestamps,
          strike_text \in StrikeTexts :
        LET out == AddStrikeOutcome(badusers, server, user, Moderator, timestamp, strike_text)
        IN  /\ badusers' = out.badusers
            /\ sent' = out.sent
            /\ ev' = Event("addstrike", server, user, {}, {})
    /\ b_pre' = badusers
    /\ b_pc' = "handled"
    /\ UNCHANGED <<role_ids, positive_role_ids, update_channel, banned_users>>
    /\ UNCHANGED <<padboardVars, startVars, logVars, reportVars>>

\* [p]baduser clearstrikes <user>, lines 162-167
ClearStrikes ==
    /\ b_pc = "idle"
    /\ \E server \in Servers, user \in Users :
        /\ badusers' = ClearUserStrikes(badusers, server, user)
        /\ sent' = << Message("ctx", <<"Cleared strikes for ", user>>) >>
        /\ ev' = Event("clearstrikes", server, user, {}, {})
    /\ b_pre' = badusers
    /\ b_pc' = "handled"
    /\ UNCHANGED <<role_ids, positive_role_ids, update_channel, banned_users>>
    /\ UNCHANGED <<padboardVars, startVars, logVars, reportVars>>

\* setUserStrikes, lines 540-543
SetUserStrikes(bu, server_id, user_id, strikes) ==
    [bu EXCEPT ![server_id] =
        [u \in DOMAIN bu[server_id] \cup {user_id} |->
            IF u = user_id THEN strikes ELSE bu[server_id][u]]]

\* list.remove(x): the list without the first element equal to x
RemoveFirst(seq, x) ==
    LET i == CHOOSE k \in 1..Len(seq) : seq[k] = x /\ \A j \in 1..(k - 1) : seq[j] # x
    IN  SubSeq(seq, 1, i - 1) \o SubSeq(seq, i + 1, Len(seq))

\* The position (from 1) that list[idx] reads, a negative idx counting from
\* the end; 0 when the index is out of range (IndexError).
PyPosition(seq, idx) ==
    IF idx >= 0
    THEN (IF idx < Len(seq) THEN idx + 1 ELSE 0)
    ELSE (IF Len(seq) + idx >= 0 THEN Len(seq) + idx + 1 ELSE 0)

\* The numbers a moderator gives deletestrike.
StrikeNums == (0 - 1)..(MaxStrikes + 1)

\* The event of a command that takes a strike number.
StrikeEvent(op, server, user, num) ==
    [op |-> op, server |-> server, user |-> user, before |-> {}, after |-> {}, num |-> num]

\* deletestrike, lines 182-195: 'Strike not found' when the user has no
\* strikes or fewer than strike_num; otherwise the strike at index
\* strike_num - 1 is read, the first strike equal to it is removed from the
\* list, the list is stored and the two replies are said.  An index out of
\* range raises before anything is changed or said.
DeleteStrikeOutcome(bu, server, user, strike_num) ==
    LET strikes == GetUserStrikes(bu, server, user)
        pos == PyPosition(strikes, strike_num - 1)
    IN  IF Len(strikes) = 0 \/ Len(strikes) < strike_num
        THEN [badusers |-> bu,
              sent |-> << Message("ctx", <<"Strike not found for ", user>>) >>]
        ELSE IF pos = 0
        THEN [badusers |-> bu, sent |-> <<>>]
        ELSE LET remaining == RemoveFirst(strikes, strikes[pos])
             IN  [badusers |-> SetUserStrikes(bu, server, user, remaining),
                  sent |-> << Message("ctx", <<"Removed strike ", ToString(strike_num),
                                              ". User has ", ToString(Len(remaining)),
                                              " remaining.">>),
                              Message("ctx", strikes[pos]) >>]

\* [p]baduser deletestrike <user> <strike_num>
DeleteStrike ==
    /\ b_pc = "idle"
    /\ \E server \in Servers, user \in Users, strike_num \in StrikeNums :
        LET out == DeleteStrikeOutcome(badusers, server, user, strike_num)
        IN  /\ badusers' = out.badusers
            /\ sent' = out.sent
            /\ ev' = StrikeEvent("deletestrike", server, user, strike_num)
    /\ b_pre' = badusers
    /\ b_pc' = "handled"
    /\ UNCHANGED <<role_ids, positive_role_ids, update_channel, banned_users>>
    /\ UNCHANGED <<padboardVars, startVars, logVars, reportVars>>

\* mod_ban, lines 360-361: a ban records a strike for the role 'BANNED'
ModBan ==
    /\ b_pc = "idle"
    /\ \E server \in Servers, user \in Users, dm_ok \in BOOLEAN :
        LET out == RecordBadUser(badusers, update_channel, logs, server, user, "BANNED", dm_ok)
        IN  /\ TotalStrikes(out.badusers) <= MaxLogStrikes
            /\ badusers' = out.badusers
            /\ sent' = out.sent
            /\ ev' = Event("ban", server, user, {}, {})
    /\ b_pre' = badusers
    /\ b_pc' = "handled"
    /\ UNCHANGED <<role_ids, positive_role_ids, update_channel, banned_users>>
    /\ UNCHANGED <<padboardVars, startVars, logVars, reportVars>>

\* The log line of a message, lines 355-357
LogMsg(timestamp, author, channel) == <<"[", timestamp, "] ", author, ": ", channel>>

\* A deque without a length limit.
DequeAppendUnbounded(d, x) == Append(d, x)

\* deque(maxlen=LOGS_PER_USER).append, line 37: a full deque drops its
\* oldest entry
DequeAppend(d, x) ==
    IF Len(d) >= LOGS_PER_USER THEN Append(Tail(d), x) ELSE Append(d, x)

\* mod_message, lines 348-358: the bot's own messages and the messages of a
\* private channel are not logged
ModMessageOutcome(user_logs, author, is_private, log_msg) ==
    IF author = BotUser \/ is_private
    THEN user_logs
    ELSE [user_logs EXCEPT ![author] = DequeAppend(@, log_msg)]

RECURSIVE SumLens(_, _)
SumLens(f, S) ==
    IF S = {} THEN 0
    ELSE LET a == CHOOSE x \in S : TRUE
         IN  Len(f[a]) + SumLens(f, S \ {a})

\* on_message: a message arrives at any time, also while a handler is
\* sending.  It is stamped with its number among its author's messages in
\* server channels.
ModMessage ==
    /\ \E author \in Authors, is_private \in BOOLEAN :
        LET channel == IF is_private THEN "dm" ELSE "general"
            log_msg == LogMsg(Len(arrived[author]) + 1, author, channel)
        IN  /\ (author # BotUser /\ ~is_private) => SumLens(arrived, Authors) < MaxMessages
            /\ logs' = ModMessageOutcome(logs, author, is_private, log_msg)
            /\ arrived' = IF author # BotUser /\ ~is_private
                          THEN [arrived EXCEPT ![author] = Append(@, log_msg)]
                          ELSE arrived
    /\ UNCHANGED <<badusers, role_ids, positive_role_ids, update_channel,
                   b_pc, ev, sent, b_pre, banned_users>>
    /\ UNCHANGED <<padboardVars, startVars, reportVars>>

(***************************************************************************)
(* The strike privacy of a server and the report command.  report awaits   *)
(* the global ban list, then the ban list of every other server that is    *)
(* not private, then the member list of its own server; the code between   *)
(* two awaits is one step.                                                 *)
(***************************************************************************)
\* getStrikesPrivate, lines 569-571: public unless set
GetStrikesPrivate(private, server_id) == private[server_id]

\* setStrikesPrivate, lines 573-576
SetStrikesPrivate(private, server_id, value) == [private EXCEPT ![server_id] = value]

\* The reply of togglestrikeprivacy, lines 113-115: the conditional
\* expression takes the whole concatenation as its first branch
ToggleReply(is_private) ==
    IF is_private THEN <<"\nStrike existance is now ", "private">> ELSE <<"public">>

\* [p]baduser togglestrikeprivacy, lines 107-115
ToggleStrikePrivacy ==
    /\ b_pc = "idle"
    /\ \E server \in Servers :
        /\ toggles[server] < MaxToggles
        /\ strikes_private' = SetStrikesPrivate(strikes_private, server,
                                                ~GetStrikesPrivate(strikes_private, server))
        /\ toggles' = [toggles EXCEPT ![server] = @ + 1]
        /\ sent' = << Message("ctx", ToggleReply(GetStrikesPrivate(strikes_private', server))) >>
        /\ ev' = Event("togglestrikeprivacy", server, "none", {}, {})
    /\ b_pre' = badusers
    /\ b_pc' = "handled"
    /\ UNCHANGED <<badusers, role_ids, positive_role_ids, update_channel, banned_users>>
    /\ UNCHANGED <<report, r_hist>>
    /\ UNCHANGED <<padboardVars, startVars, logVars>>

\* No report is running.
NoReport ==
    [pc |-> "idle", cur_server |-> "none", servers |-> <<>>, i |-> 0,
     global_banned_users |-> {},
     user_id_to_ban_server |-> [u \in Users |-> <<>>],
     user_id_to_baduser_server |-> [u \in Users |-> <<>>],
     error_messages |-> <<>>, msg |-> <<>>]

NoHistory == [seen |-> [s \in Servers |-> "unchecked"], used |-> {}]

\* The loop of report that skips every server as if it were public.
RECURSIVE LoopIgnoringPrivacy(_, _, _, _, _)
LoopIgnoringPrivacy(private, cur_server, servers, i, errors) ==
    IF i > Len(servers) THEN [i |-> i, error_messages |-> errors]
    ELSE IF servers[i] = cur_server
    THEN LoopIgnoringPrivacy(private, cur_server, servers, i + 1, errors)
    ELSE [i |-> i, error_messages |-> errors]

\* The loop of report from server number i up to its next await, lines
\* 207-217: the own server is skipped, a private server is skipped with an
\* error message, and the ban list of the first other server is awaited.
\* The result is the number of that server (or one past the last) and the
\* error messages.
RECURSIVE LoopUntilAwait(_, _, _, _, _)
LoopUntilAwait(private, cur_server, servers, i, errors) ==
    IF i > Len(servers) THEN [i |-> i, error_messages |-> errors]
    ELSE IF servers[i] = cur_server
    THEN LoopUntilAwait(private, cur_server, servers, i + 1, errors)
    ELSE IF GetStrikesPrivate(private, servers[i])
    THEN LoopUntilAwait(private, cur_server, servers, i + 1,
                        Append(errors, <<"Server '", servers[i], "' set its strikes private">>))
    ELSE [i |-> i, error_messages |-> errors]

\* The frame after the loop has run to its next await: the ban list of a
\* server, or the member list (line 233) when the loop is over.
AtNextAwait(frame, out) ==
    [frame EXCEPT !.i = out.i, !.error_messages = out.error_messages,
                  !.pc = IF out.i > Len(frame.servers) THEN "members" ELSE "bans"]

\* History: the privacy the report found at the servers number from..to
\* when it looked at them.
SeenBy(hist, private, cur_server, servers, from, to) ==
    [hist EXCEPT !.seen =
        [s \in Servers |->
            IF \E k \in from..to : k <= Len(servers) /\ servers[k] = s /\ s # cur_server
            THEN (IF private[s] THEN "private" ELSE "public")
            ELSE hist.seen[s]]]

\* report, lines 197-202: the command starts and awaits the global ban list.
\* servers is the order in which self.bot.servers is iterated.
ReportStart ==
    /\ report.pc = "idle"
    /\ \E cur_server \in Servers, servers \in Orders(Servers) :
        report' = [NoReport EXCEPT !.pc = "loading", !.cur_server = cur_server,
                                   !.servers = servers]
    /\ r_hist' = NoHistory
    /\ UNCHANGED <<badusers, role_ids, positive_role_ids, update_channel,
                   b_pc, ev, sent, b_pre, banned_users, strikes_private, toggles>>
    /\ UNCHANGED <<padboardVars, startVars, logVars>>

\* The global ban list arrives (line 202) and the loop runs to its first
\* await, or the download fails and the command ends.
ReportLoaded ==
    /\ report.pc = "loading"
    /\ \/ \E global_banned_users \in GlobalBanLists :
            LET out == LoopUntilAwait(strikes_private, report.cur_server, report.servers, 1, <<>>)
            IN  /\ report' = AtNextAwait([report EXCEPT !.global_banned_users =
                                                             global_banned_users], out)
                /\ r_hist' = SeenBy(r_hist, strikes_private, report.cur_server,
                                    report.servers, 1, out.i)
       \/ /\ report' = NoReport
          /\ r_hist' = NoHistory
    /\ UNCHANGED <<badusers, role_ids, positive_role_ids, update_channel,
                   b_pc, ev, sent, b_pre, banned_users, strikes_private, toggles>>
    /\ UNCHANGED <<padboardVars, startVars, logVars>>

\* The servers a list of users is noted for, lines 219-224
NoteServer(by_user, users, server_id) ==
    [u \in Users |-> IF u \in users THEN Append(by_user[u], server_id) ELSE by_user[u]]

\* The frame when get_bans of server number i returns ban_list, or raises
\* (ok is false), lines 213-224: the banned users and the server's bad
\* users, read now, are noted for the server.
BansReceived(frame, bu, ok, ban_list) ==
    LET server_id == frame.servers[frame.i]
    IN  [frame EXCEPT
            !.user_id_to_ban_server = NoteServer(@, IF ok THEN ban_list ELSE {}, server_id),
            !.user_id_to_baduser_server = NoteServer(@, DOMAIN GetBadUsers(bu, server_id), server_id),
            !.error_messages =
                IF ok THEN @
                ELSE Append(@, <<"Server '", server_id, "' refused access to ban list">>)]

\* The ban list of a server arrives, or is refused, and the loop goes on to
\* its next await.
ReportBans ==
    /\ report.pc = "bans"
    /\ \E ok \in BOOLEAN, ban_list \in SUBSET BanCandidates :
        LET frame == BansReceived(report, badusers, ok, ban_list)
            out == LoopUntilAwait(strikes_private, frame.cur_server, frame.servers,
                                  frame.i + 1, frame.error_messages)
        IN  /\ ok \/ ban_list = {}
            /\ report' = AtNextAwait(frame, out)
            /\ r_hist' = [SeenBy(r_hist, strikes_private, frame.cur_server, frame.servers,
                                 frame.i + 1, out.i)
                            EXCEPT !.used = @ \cup {report.servers[report.i]}]
    /\ UNCHANGED <<badusers, role_ids, positive_role_ids, update_channel,
                   b_pc, ev, sent, b_pre, banned_users, strikes_private, toggles>>
    /\ UNCHANGED <<padboardVars, startVars, logVars>>

\* The first line of a strike, line 253
FirstLine(strike) == IF strike[1] = "Name=" THEN SubSeq(strike, 1, 4) ELSE strike

\* The entry of a member, lines 235-253
ReportEntry(frame, bu, member) ==
    LET local_strikes == GetUserStrikes(bu, frame.cur_server, member)
    IN  [member |-> member,
         other_baduser_servers |-> Len(frame.user_id_to_baduser_server[member]),
         other_banned_servers |-> Len(frame.user_id_to_ban_server[member]),
         is_globally_banned |-> member \in frame.global_banned_users,
         strikes |-> [k \in 1..Len(local_strikes) |-> FirstLine(local_strikes[k])]]

\* A member with nothing to report is left out, lines 240-241
HasEntry(entry) ==
    \/ entry.strikes # <<>>
    \/ entry.other_baduser_servers > 0
    \/ entry.other_banned_servers > 0
    \/ entry.is_globally_banned

\* The report, lines 234-273
ReportMessage(frame, bu, members) ==
    LET entries == [k \in 1..Len(members) |-> ReportEntry(frame, bu, members[k])]
        IsBadUser(e) == HasEntry(e) /\ e.strikes # <<>>
        IsOtherUser(e) == HasEntry(e) /\ e.strikes = <<>>
    IN  [other_server_count |-> Cardinality(Servers) - 1,
         other_ban_count |->
            Cardinality({u \in Users : frame.user_id_to_ban_server[u] # <<>>}),
         other_baduser_count |->
            Cardinality({u \in Users : frame.user_id_to_baduser_server[u] # <<>>}),
         baduser_entries |-> SelectSeq(entries, IsBadUser),
         otheruser_entries |-> SelectSeq(entries, IsOtherUser),
         error_messages |-> frame.error_messages]

\* The members of the server arrive (line 233); the report is put together
\* from the strikes as they are now and said.
ReportMembers ==
    /\ report.pc = "members"
    /\ \E members \in MemberOrders :
        report' = [report EXCEPT !.pc = "said",
                                 !.msg = ReportMessage(report, badusers, members)]
    /\ UNCHANGED <<badusers, role_ids, positive_role_ids, update_channel,
                   b_pc, ev, sent, b_pre, banned_users, strikes_private, toggles, r_hist>>
    /\ UNCHANGED <<padboardVars, startVars, logVars>>

\* The pages are out and the command returns.
ReportReturn ==
    /\ report.pc = "said"
    /\ report' = NoReport
    /\ r_hist' = NoHistory
    /\ UNCHANGED <<badusers, role_ids, positive_role_ids, update_channel,
                   b_pc, ev, sent, b_pre, banned_users, strikes_private, toggles>>
    /\ UNCHANGED <<padboardVars, startVars, logVars>>

\* No server has set its privacy and no report runs.
InitReportVars ==
    /\ strikes_private = [s \in Servers |-> FALSE]
    /\ toggles = [s \in Servers |-> 0]
    /\ report = NoReport
    /\ r_hist = NoHistory

\* The handler's messages are out and it returns.
BadUserReturn ==
    /\ b_pc = "handled"
    /\ b_pc' = "idle"
    /\ ev' = NoEvent
    /\ sent' = <<>>
    /\ b_pre' = badusers
    /\ UNCHANGED <<badusers, role_ids, positive_role_ids, update_channel, banned_users>>
    /\ UNCHANGED <<padboardVars, startVars, logVars, reportVars>>

(***************************************************************************)
(* The configuration commands.  Their one reply is not recorded.           *)
(***************************************************************************)
\* addnegativerole / rmnegativerole, lines 61-75 and 495-505
SetNegativeRole ==
    /\ b_pc = "idle"
    /\ \E server \in ConfiguredServers, role \in NegativeCandidates, add \in BOOLEAN :
        role_ids' = [role_ids EXCEPT ![server] = IF add THEN @ \cup {role} ELSE @ \ {role}]
    /\ UNCHANGED <<badusers, positive_role_ids, update_channel, banned_users,
                   b_pc, ev, sent, b_pre>>
    /\ UNCHANGED <<padboardVars, startVars, logVars, reportVars>>

\* addpositiverole / rmpositiverole, lines 77-91 and 513-523
SetPositiveRole ==
    /\ b_pc = "idle"
    /\ \E server \in ConfiguredServers, role \in PositiveCandidates, add \in BOOLEAN :
        positive_role_ids' =
            [positive_role_ids EXCEPT ![server] = IF add THEN @ \cup {role} ELSE @ \ {role}]
    /\ UNCHANGED <<badusers, role_ids, update_channel, banned_users,
                   b_pc, ev, sent, b_pre>>
    /\ UNCHANGED <<padboardVars, startVars, logVars, reportVars>>

\* setchannel / clearchannel, lines 93-105 and 554-563
SetChannel ==
    /\ b_pc = "idle"
    /\ \E server \in ConfiguredServers, channel \in Channels \cup {"None"} :
        update_channel' = [update_channel EXCEPT ![server] = channel]
    /\ UNCHANGED <<badusers, role_ids, positive_role_ids, banned_users,
                   b_pc, ev, sent, b_pre>>
    /\ UNCHANGED <<padboardVars, startVars, logVars, reportVars>>

\* addban / rmban, lines 278-290 and 581-587
SetBan ==
    /\ b_pc = "idle"
    /\ \E user \in BanCandidates, reason \in BanReasons, add \in BOOLEAN :
        banned_users' =
            IF add
            THEN [u \in DOMAIN banned_users \cup {user} |->
                     IF u = user THEN reason ELSE banned_users[u]]
            ELSE [u \in DOMAIN banned_users \ {user} |-> banned_users[u]]
    /\ UNCHANGED <<badusers, role_ids, positive_role_ids, update_channel,
                   b_pc, ev, sent, b_pre>>
    /\ UNCHANGED <<padboardVars, startVars, logVars, reportVars>>

\* make_default_settings, lines 467-472: no server has any setting
InitBadUserVars ==
    /\ badusers = [s \in Servers |-> <<>>]
    /\ role_ids = [s \in Servers |-> {}]
    /\ positive_role_ids = [s \in Servers |-> {}]
    /\ update_channel = [s \in Servers |-> "None"]
    /\ banned_users = <<>>
    /\ b_pc = "idle"
    /\ ev = NoEvent
    /\ sent = <<>>
    /\ b_pre = badusers
    /\ logs = [a \in Authors |-> <<>>]
    /\ arrived = [a \in Authors |-> <<>>]
    /\ InitReportVars

(***************************************************************************)
(* The cog after setup (lines 41-45, 204-209): both snapshots loaded from  *)
(* the persisted directory and file.                                       *)
(***************************************************************************)
\* A stray file lies in the folder; every type subdirectory holds an image
\* of the oldest shade or none.
InitDirs == {d \in [Paths -> 0..1] : \A p \in TopPaths : d[p] = 1}

\* The table file maps every key.
InitFiles == {b \in TableBytes : b.valid /\ DOMAIN b.table = ColorKeys}

Init ==
    /\ orb_dir \in InitDirs
    /\ pixel_file \in InitFiles
    /\ orb_type_to_images = LoadOrbImagesDirToMap(orb_dir)
    /\ hsv_pixels_to_orb = LoadHsvToOrb(pixel_file)
    /\ t_pc = "idle" /\ t_zip = NoZip /\ t_said = "none"
    /\ p_pc = "idle" /\ p_bytes = NoBytes /\ p_said = "none"
    /\ reloads = 0
    /\ t_pre = [images |-> orb_type_to_images, dir |-> orb_dir]
    /\ p_pre = [table |-> hsv_pixels_to_orb, file |-> pixel_file]
    /\ image = <<>> /\ dg_pc = "idle"
    /\ img_board = NoBoard /\ hsv_board = NoBoard
    /\ board_text = <<>> /\ msg = <<>>
    /\ runs = 0 /\ prior = [hsv |-> NoBoard, text |-> <<>>, msg |-> <<>>]
    /\ cog = "started" /\ load_error = "none"
    /\ InitBadUserVars

Next ==
    \/ DownloadTrainingStart
    \/ DownloadTrainingResponse
    \/ DownloadTrainingRead
    \/ DownloadTrainingExtract
    \/ DownloadTrainingReload
    \/ DownloadPixelFileStart
    \/ DownloadPixelFileResponse
    \/ DownloadPixelFileRead
    \/ DownloadPixelFileWrite
    \/ DownloadPixelFileReload
    \/ DawnglareNoImage
    \/ Dawnglare
    \/ DawnglareReturn

Spec == Init /\ [][Next]_vars

(***************************************************************************)
(* Encode specification: dawnglare applied to boards drawn from bounded    *)
(* sets as the results of classify.                                        *)
(***************************************************************************)
InitReloadIdle ==
    /\ orb_dir = EmptyDir
    /\ pixel_file = [valid |-> TRUE, table |-> EmptyTable]
    /\ orb_type_to_images = LoadOrbImagesDirToMap(orb_dir)
    /\ hsv_pixels_to_orb = LoadHsvToOrb(pixel_file)
    /\ t_pc = "idle" /\ t_zip = NoZip /\ t_said = "none"
    /\ p_pc = "idle" /\ p_bytes = NoBytes /\ p_said = "none"
    /\ reloads = 0
    /\ t_pre = [images |-> orb_type_to_images, dir |-> orb_dir]
    /\ p_pre = [table |-> hsv_pixels_to_orb, file |-> pixel_file]

NoPrior == [hsv |-> NoBoard, text |-> <<>>, msg |-> <<>>]

InitEncode ==
    /\ InitReloadIdle
    /\ image = <<>> /\ dg_pc = "idle"
    /\ img_board \in {CodeBoard(tb) : tb \in BoardInputs}
    /\ hsv_board = NoBoard
    /\ board_text = <<>>
    /\ msg = <<>>
    /\ runs = 0
    /\ prior = NoPrior
    /\ cog = "started" /\ load_error = "none"
    /\ InitBadUserVars

\* dawnglare from line 142 on, classify having returned (img_board, hb).
DawnglareOnBoards ==
    /\ runs < MaxRuns
    /\ \E hb \in {CodeBoard(tb) : tb \in HsvInputs} :
        /\ hsv_board' = hb
        /\ board_text' = BoardText(img_board)
        /\ msg' = Said(img_board, hb)
    /\ runs' = runs + 1
    /\ prior' = [hsv |-> hsv_board, text |-> board_text, msg |-> msg]
    /\ UNCHANGED <<img_board, image, dg_pc>>
    /\ UNCHANGED reloadVars
    /\ UNCHANGED <<startVars, baduserVars>>

NextEncode == DawnglareOnBoards

SpecEncode == InitEncode /\ [][NextEncode]_vars

(***************************************************************************)
(* The startup specification: setup (lines 204-209) constructing the cog   *)
(* (lines 41-45) from whatever the data directory and the table file hold, *)
(* then dawnglare calls on the cog if it was added.                        *)
(***************************************************************************)
\* __init__, lines 44-45, inside setup, lines 204-209: the library is loaded,
\* then the table; a loader that raises ends __init__, so the second load
\* is not attempted after a failure of the first, no PadBoard exists, and
\* setup raises before add_listener and add_cog.
SetupOutcome(images_ok, dir, file) ==
    IF ~images_ok
    THEN [cog |-> "failed", load_error |-> "orb_images", images |-> <<>>, table |-> EmptyTable]
    ELSE IF ~file.valid
    THEN [cog |-> "failed", load_error |-> "hsv_pixels", images |-> <<>>, table |-> EmptyTable]
    ELSE [cog |-> "started", load_error |-> "none",
          images |-> LoadOrbImagesDirToMap(dir), table |-> LoadHsvToOrb(file)]

\* setup(bot), lines 204-209
Setup ==
    /\ cog = "unloaded"
    /\ \E images_ok \in BOOLEAN :
        LET out == SetupOutcome(images_ok, orb_dir, pixel_file)
        IN  /\ cog' = out.cog
            /\ load_error' = out.load_error
            /\ orb_type_to_images' = out.images
            /\ hsv_pixels_to_orb' = out.table
    /\ UNCHANGED <<orb_dir, pixel_file, t_pc, t_zip, t_said, p_pc, p_bytes, p_said,
                   reloads, t_pre, p_pre,
                   image, dg_pc, img_board, hsv_board, board_text, msg, runs, prior>>
    /\ UNCHANGED baduserVars

\* Before setup: the directory holds any files, the table file is absent or
\* unreadable, or holds a table.
InitStartup ==
    /\ orb_dir \in [Paths -> 0..1]
    /\ pixel_file \in TableBytes
    /\ orb_type_to_images = <<>>
    /\ hsv_pixels_to_orb = EmptyTable
    /\ t_pc = "idle" /\ t_zip = NoZip /\ t_said = "none"
    /\ p_pc = "idle" /\ p_bytes = NoBytes /\ p_said = "none"
    /\ reloads = 0
    /\ t_pre = [images |-> orb_type_to_images, dir |-> orb_dir]
    /\ p_pre = [table |-> hsv_pixels_to_orb, file |-> pixel_file]
    /\ image = <<>> /\ dg_pc = "idle"
    /\ img_board = NoBoard /\ hsv_board = NoBoard
    /\ board_text = <<>> /\ msg = <<>>
    /\ runs = 0 /\ prior = NoPrior
    /\ cog = "unloaded" /\ load_error = "none"
    /\ InitBadUserVars

NextStartup ==
    \/ Setup
    \/ DawnglareNoImage
    \/ Dawnglare
    \/ DawnglareReturn

SpecStartup == InitStartup /\ [][NextStartup]_vars

(***************************************************************************)
(* The baduser specification: the baduser cog's handlers, the padboard cog  *)
(* idle.                                                                   *)
(***************************************************************************)
\* The padboard cog is loaded and idle.
InitPadBoardIdle ==
    /\ InitReloadIdle
    /\ image = <<>> /\ dg_pc = "idle"
    /\ img_board = NoBoard /\ hsv_board = NoBoard
    /\ board_text = <<>> /\ msg = <<>>
    /\ runs = 0 /\ prior = NoPrior
    /\ cog = "started" /\ load_error = "none"

InitBadUser == InitPadBoardIdle /\ InitBadUserVars

NextBadUser ==
    \/ CheckPunishment
    \/ ModUserLeft
    \/ ModUserJoin
    \/ AddStrike
    \/ ClearStrikes
    \/ BadUserReturn
    \/ SetNegativeRole
    \/ SetPositiveRole
    \/ SetChannel
    \/ SetBan

SpecBadUser == InitBadUser /\ [][NextBadUser]_vars

(***************************************************************************)
(* The strike lists under the commands that edit them.  The negative roles *)
(* of the configured servers are set, the update channel is not, so a      *)
(* member gaining the role gets an automatic strike and nothing is         *)
(* announced.                                                              *)
(***************************************************************************)
InitStrikes ==
    /\ InitPadBoardIdle
    /\ badusers = [s \in Servers |-> <<>>]
    /\ role_ids = [s \in Servers |-> IF s \in ConfiguredServers THEN NegativeCandidates ELSE {}]
    /\ positive_role_ids = [s \in Servers |-> {}]
    /\ update_channel = [s \in Servers |-> "None"]
    /\ banned_users = <<>>
    /\ b_pc = "idle"
    /\ ev = NoEvent
    /\ sent = <<>>
    /\ b_pre = badusers
    /\ logs = [a \in Authors |-> <<>>]
    /\ arrived = [a \in Authors |-> <<>>]
    /\ InitReportVars

NextStrikes ==
    \/ CheckPunishment
    \/ AddStrike
    \/ ClearStrikes
    \/ DeleteStrike
    \/ BadUserReturn

SpecStrikes == InitStrikes /\ [][NextStrikes]_vars

(***************************************************************************)
(* The message log and the automatic strikes that quote it: messages       *)
(* arrive, members are banned or gain the punishment role.  The other      *)
(* member updates are left to the other specifications.                    *)
(***************************************************************************)
\* on_member_update for a member who had no role and gains one punishment
\* role of the server, while few strikes are on record.
GainPunishmentRole ==
    /\ b_pc = "idle"
    /\ \E server \in Servers, user \in Users, dm_ok \in BOOLEAN :
       \E role \in role_ids[server] :
        LET out == CheckPunishmentOutcome(badusers, update_channel, logs, role_ids[server],
                                          positive_role_ids[server], server, user,
                                          {}, {role}, <<role>>, <<>>, dm_ok)
        IN  /\ TotalStrikes(out.badusers) <= MaxLogStrikes
            /\ badusers' = out.badusers
            /\ sent' = out.sent
            /\ ev' = Event("update", server, user, {}, {role})
    /\ b_pre' = badusers
    /\ b_pc' = "handled"
    /\ UNCHANGED <<role_ids, positive_role_ids, update_channel, banned_users>>
    /\ UNCHANGED <<padboardVars, startVars, logVars, reportVars>>

NextLogs ==
    \/ ModMessage
    \/ ModBan
    \/ GainPunishmentRole
    \/ BadUserReturn

SpecLogs == InitStrikes /\ [][NextLogs]_vars

(***************************************************************************)
(* The report command while servers toggle their strike privacy and        *)
(* strikes are added.                                                      *)
(***************************************************************************)
\* addstrike while few strikes are on record.
AddStrikeFew == AddStrike /\ TotalStrikes(badusers') <= MaxLogStrikes

NextReport ==
    \/ ReportStart
    \/ ReportLoaded
    \/ ReportBans
    \/ ReportMembers
    \/ ReportReturn
    \/ ToggleStrikePrivacy
    \/ AddStrikeFew
    \/ BadUserReturn

SpecReport == InitBadUser /\ [][NextReport]_vars

(***************************************************************************)
(* Properties.                                                             *)
(***************************************************************************)
\* The last dawnglare call classified an image and its locals are alive.
Classified == dg_pc = "replied" /\ image # <<>>

TrainingSucceeded == t_pc = "idle" /\ t_said = "done reloading"

\* C1: a classify that runs at any suspension point of a downloadtraining, or
\* after it, produces the similarity board of one complete library: the one
\* that was active when the reload started or, once the reload has
\* succeeded, the one it installed.
C1_ClassifyUsesOneLibrary ==
    (Classified /\ t_said # "none") =>
        \/ img_board = SimilarityBoard(t_pre.images, image)
        \/ /\ TrainingSucceeded
           /\ img_board = SimilarityBoard(orb_type_to_images, image)

\* C1 witness: classify ran between the extraction and the swap, when the
\* directory already held other templates, and its board is the old
\* library's, not the one the directory would give.
C1_Witness ==
    /\ Classified
    /\ t_pc = "load"
    /\ LoadOrbImagesDirToMap(orb_dir) # t_pre.images
    /\ img_board = SimilarityBoard(t_pre.images, image)
    /\ img_board # SimilarityBoard(LoadOrbImagesDirToMap(orb_dir), image)

C3_EmptyBundleChangesNothing ==
    (t_pc = "idle" /\ t_said = "empty zip file?") =>
        /\ orb_dir = t_pre.dir
        /\ orb_type_to_images = t_pre.images

\* C3 witness: the empty bundle arrived when the folder held a stray file and
\* the library held templates.
C3_Witness ==
    /\ t_pc = "idle" /\ t_said = "empty zip file?"
    /\ \E p \in TopPaths : orb_dir[p] # 0
    /\ Len(orb_type_to_images) > 0
    /\ orb_dir = t_pre.dir

\* C4 (the claim as stated): the step that completes a successful
\* downloadtraining leaves, in the type subdirectories, exactly the bundle's
\* templates, and installs the library of the bundle alone.
C4_LibraryIsTheBundle ==
    [][(t_pc = "load" /\ t_said' = "done reloading") =>
          /\ \A p \in SubPaths : orb_dir'[p] = t_zip.files[p]
          /\ orb_type_to_images' = LoadOrbImagesDirToMap(t_zip.files)]_vars

\* C5: the step that handles a non-success status ends the command and
\* changes neither the directory, the pixel file nor an active snapshot, and
\* the resource is then as it was when the command started.
C5_BadStatusTouchesNothing ==
    [][/\ (t_pc = "get" /\ t_said' = "download failed") =>
            /\ t_pc' = "idle"
            /\ UNCHANGED <<orb_dir, pixel_file, orb_type_to_images, hsv_pixels_to_orb>>
            /\ orb_dir' = t_pre.dir /\ orb_type_to_images' = t_pre.images
       /\ (p_pc = "get" /\ p_said' = "download failed") =>
            /\ p_pc' = "idle"
            /\ UNCHANGED <<orb_dir, pixel_file, orb_type_to_images, hsv_pixels_to_orb>>
            /\ pixel_file' = p_pre.file /\ hsv_pixels_to_orb' = p_pre.table]_vars

\* C5 witness: both downloads were refused while the folder held files.
C5_Witness ==
    /\ t_pc = "idle" /\ t_said = "download failed"
    /\ p_pc = "idle" /\ p_said = "download failed"
    /\ Files(orb_dir) # {}
    /\ pixel_file.valid

\* C6: no step of downloadtraining changes the active color table and no
\* step of downloadpixelfile changes the active template library.
C6_HalvesSwapIndependently ==
    [][/\ t_pc' # t_pc => hsv_pixels_to_orb' = hsv_pixels_to_orb
       /\ p_pc' # p_pc => orb_type_to_images' = orb_type_to_images]_vars

\* C6 witness: downloadtraining installed a new library while a
\* downloadpixelfile had written a different table and not yet loaded it;
\* the active table is still the old one.
C6_Witness ==
    /\ TrainingSucceeded
    /\ orb_type_to_images # t_pre.images
    /\ p_pc = "load"
    /\ pixel_file.valid
    /\ pixel_file.table # hsv_pixels_to_orb
    /\ hsv_pixels_to_orb = p_pre.table

\* The external code map: the internal code with the bomb's replaced.
ExternalCode(t) == ReplaceBomb(<<InternalCode(t)>>)[1]

\* Decoding one character: the inverse of the external code map.
DecodeChar(ch) == CHOOSE t \in OrbTypes : ExternalCode(t) = ch

\* The orb type of a cell of a board.
TypeOfCode(ch) == CHOOSE t \in OrbTypes : InternalCode(t) = ch

CellIndex(r, c) == (r - 1) * Cols + c

Encoded == runs >= 1

\* C7: decoding the encoded string character by character gives back the
\* orb type of every cell, and only bomb cells are written with the bomb's
\* external character.
C7_EncodeDecodeRoundTrip ==
    Encoded =>
        /\ Len(board_text) = Rows * Cols
        /\ \A r \in 1..Rows, c \in 1..Cols :
              /\ DecodeChar(board_text[CellIndex(r, c)]) = TypeOfCode(img_board[r][c])
              /\ board_text[CellIndex(r, c)] = ExternalCode("Bomb")
                    => TypeOfCode(img_board[r][c]) = "Bomb"

\* C7 witness: a board with a bomb cell was encoded; the cell is written
\* with another character than its internal code and decodes to Bomb.
C7_Witness ==
    /\ Encoded
    /\ \E r \in 1..Rows, c \in 1..Cols :
          /\ img_board[r][c] = InternalCode("Bomb")
          /\ board_text[CellIndex(r, c)] # img_board[r][c]
          /\ DecodeChar(board_text[CellIndex(r, c)]) = "Bomb"
    /\ \E r \in 1..Rows, c \in 1..Cols : img_board[r][c] = InternalCode("Unknown")

\* C8: the encoded string has one character per cell in row-major order from
\* the top-left cell, the cell's code with the bomb's replaced by 'x'; the
\* board of rows alternating Fire and Water encodes to Fire's and Water's
\* codes alternating.
C8_RowMajorOneCharPerCell ==
    Encoded =>
        /\ Len(board_text) = Rows * Cols
        /\ \A r \in 1..Rows, c \in 1..Cols :
              board_text[CellIndex(r, c)] =
                  IF img_board[r][c] = "o" THEN "x" ELSE img_board[r][c]
        /\ img_board = CodeBoard(AltRows("Fire", "Water")) =>
              \A k \in 1..(Rows * Cols) :
                  board_text[k] =
                      IF k % 2 = 1 THEN InternalCode("Fire") ELSE InternalCode("Water")

\* C8 witness: the alternating Fire/Water board was encoded to 30 characters.
C8_Witness ==
    /\ Encoded
    /\ img_board = CodeBoard(AltRows("Fire", "Water"))
    /\ Len(board_text) = 30
    /\ board_text[1] = "r" /\ board_text[2] = "b" /\ board_text[7] = "r"

\* C9: a call says exactly one message, the two templates formatted with
\* one and the same encoded string, joined by a newline.
C9_BothLinksInOneReply ==
    Encoded =>
        /\ Len(msg) = 1
        /\ msg[1] = Format(DAWNGLARE_BOARD_TEMPLATE, board_text) \o <<"\n">>
                        \o Format(MIRUGLARE_BOARD_TEMPLATE, board_text)

\* C9 witness: a reply whose two links carry the same 30 characters although
\* the color board differs from the similarity board.
C9_Witness ==
    /\ Encoded
    /\ Len(msg) = 1
    /\ Len(msg[1]) = 2 * (Rows * Cols) + 3
    /\ msg[1][1] = DAWNGLARE_BOARD_TEMPLATE
    /\ msg[1][Rows * Cols + 3] = MIRUGLARE_BOARD_TEMPLATE
    /\ SubSeq(msg[1], 2, Rows * Cols + 1)
          = SubSeq(msg[1], Rows * Cols + 4, 2 * (Rows * Cols) + 3)
    /\ hsv_board # img_board

\* C10: two calls with the same similarity board say the same message and
\* encode the same string, whatever their color boards.
C10_ColorBoardIsAdvisory ==
    runs >= 2 => (msg = prior.msg /\ board_text = prior.text)

\* C10 witness: two calls whose color boards differ said the same message.
C10_Witness ==
    /\ runs >= 2
    /\ prior.hsv # hsv_board
    /\ prior.hsv # NoBoard
    /\ msg = prior.msg

\* The internal codes of the nine orb types.
InternalCodes == {InternalCode(t) : t \in OrbTypes}

\* A Board: Rows rows of Cols cells, every cell the code of an orb type.
IsBoard(b) ==
    /\ DOMAIN b = 1..Rows
    /\ \A r \in 1..Rows :
          /\ DOMAIN b[r] = 1..Cols
          /\ \A c \in 1..Cols : b[r][c] \in InternalCodes

\* C11: a classify of a board-shaped image returns two boards, each of
\* exactly 5 rows of 6 cells, every cell the code of one of the nine orb
\* types, whatever the active library and table.
C11_TwoBoardsOfOrbTypes ==
    Classified => (IsBoard(img_board) /\ IsBoard(hsv_board))

\* C11 witness: classify returned a similarity board with known and Unknown
\* cells and a color board with an Unknown cell.
C11_Witness ==
    /\ Classified
    /\ Rows = 5 /\ Cols = 6
    /\ Len(img_board) = 5 /\ Len(img_board[1]) = 6
    /\ Len(hsv_board) = 5 /\ Len(hsv_board[5]) = 6
    /\ \E r \in 1..Rows, c \in 1..Cols : img_board[r][c] = "u"
    /\ \E r \in 1..Rows, c \in 1..Cols : img_board[r][c] # "u"
    /\ \E r \in 1..Rows, c \in 1..Cols : hsv_board[r][c] = "u"

\* C12: in the color board a cell whose quantized sample is not a key of the
\* active table is Unknown, the call still replies, and every other cell is
\* what the table gives for its key.
C12_MissingColorIsUnknown ==
    Classified =>
        \A r \in 1..Rows, c \in 1..Cols :
            hsv_board[r][c] =
                IF Quantize(image[r][c]) \in DOMAIN hsv_pixels_to_orb
                THEN hsv_pixels_to_orb[Quantize(image[r][c])]
                ELSE InternalCode("Unknown")

\* C12 witness: one board with a cell the table has no entry for (Unknown)
\* next to a cell the table classifies.
C12_Witness ==
    /\ Classified
    /\ Len(msg) = 1
    /\ \E r \in 1..Rows, c \in 1..Cols :
          /\ Quantize(image[r][c]) \notin DOMAIN hsv_pixels_to_orb
          /\ hsv_board[r][c] = "u"
    /\ \E r \in 1..Rows, c \in 1..Cols :
          /\ Quantize(image[r][c]) \in DOMAIN hsv_pixels_to_orb
          /\ hsv_board[r][c] # "u"

\* Template i of library T scores best for sample s and no earlier one
\* scores as well.
FirstBest(T, s, i) ==
    /\ \A j \in 1..Len(T) : Distance(s, T[i].img) <= Distance(s, T[j].img)
    /\ \A j \in 1..(i - 1) : Distance(s, T[j].img) > Distance(s, T[i].img)

C14_LoadFailureIsLocal ==
    /\ (load_error = "hsv_pixels") =>
          /\ cog = "started"
          /\ orb_type_to_images = LoadOrbImagesDirToMap(orb_dir)
    /\ (load_error = "orb_images" /\ pixel_file.valid) =>
          /\ cog = "started"
          /\ hsv_pixels_to_orb = LoadHsvToOrb(pixel_file)

\* C15 (the claim as stated, for the failure to delete a file): a
\* downloadtraining that says 'done extracting' or 'done reloading' met no
\* error, so every file clear_training_folder had to delete is gone.  (A
\* bundle holds no file at the top of the folder, so one found there after
\* the extraction is a file whose unlink raised.)
C15_SuccessMeansNoError ==
    (t_said \in {"done extracting", "done reloading"}) =>
        \A p \in TopPaths : orb_dir[p] = 0

\* A reload command is suspended at one of its awaits.
ReloadSuspended == t_pc # "idle" \/ p_pc # "idle"

\* C16: at every suspension point of a reload, a dawnglare call that is not
\* yet running can classify at once (the rest of its step is assignments,
\* so the step is enabled whenever its guard holds), and one that has
\* replied can return; neither waits for a step of the reload.
C16_ReloadNeverBlocksClassify ==
    ReloadSuspended =>
        /\ dg_pc = "idle" => CanClassify
        /\ dg_pc = "replied" => ENABLED DawnglareReturn

\* C16 witness: both reload commands are suspended, downloadtraining between
\* the extraction and the swap, and a dawnglare call has classified and
\* replied meanwhile.
C16_Witness ==
    /\ t_pc = "load"
    /\ p_pc \in {"get", "read", "write", "load"}
    /\ Classified
    /\ IsBoard(img_board) /\ IsBoard(hsv_board)
    /\ Len(msg) = 1

\* The last baduser handler handled an event of this kind.
Handled(op) == b_pc = "handled" /\ ev.op = op

\* The roles the handled member update added and removed.
Gained == ev.after \ ev.before
Lost == ev.before \ ev.after

\* The message pings @here.
HasHerePing(m) == \E i \in 1..Len(m.text) : m.text[i] = HERE

\* The handler sent an announcement to the server's channel / one that
\* pings @here.
Announced(server) ==
    \E i \in 1..Len(sent) : sent[i].to = GetChannel(update_channel, server)

AnnouncedWithPing(server) ==
    \E i \in 1..Len(sent) :
        sent[i].to = GetChannel(update_channel, server) /\ HasHerePing(sent[i])

\* C17 (the claim as stated): a member update that adds a role designated a
\* punishment role on the server increases the user's strike count on that
\* server, whatever else the update adds or removes and with or without a
\* channel.
C17_NegativeRoleRecordsStrike ==
    (Handled("update") /\ Gained \cap role_ids[ev.server] # {}) =>
        CountUserStrikes(badusers, ev.server, ev.user)
            > CountUserStrikes(b_pre, ev.server, ev.user)

\* C18 (the claim as stated): with a channel set for the server, a member
\* update that adds or removes a punishment role or a positive role sends to
\* that channel an announcement that pings @here.
C18_RoleChangeIsAnnounced ==
    (/\ Handled("update")
     /\ GetChannel(update_channel, ev.server) # "None"
     /\ (Gained \cup Lost) \cap (role_ids[ev.server] \cup positive_role_ids[ev.server]) # {})
        => AnnouncedWithPing(ev.server)

\* C19: with a channel set, a member with at least one strike on the server
\* is announced in that channel when leaving and, with a ping to @here,
\* when joining; a member with no strike and no local ban is not announced;
\* without a channel nothing is sent.
C19_StrikeHolderLeavesAndJoins ==
    (Handled("left") \/ Handled("join")) =>
        LET ch == GetChannel(update_channel, ev.server)
            strikes == CountUserStrikes(badusers, ev.server, ev.user)
        IN  /\ badusers = b_pre
            /\ ch = "None" => sent = <<>>
            /\ (ch # "None" /\ strikes >= 1 /\ ev.op = "left") => Announced(ev.server)
            /\ (ch # "None" /\ strikes >= 1 /\ ev.op = "join") => AnnouncedWithPing(ev.server)
            /\ (strikes = 0 /\ ev.user \notin DOMAIN banned_users) => sent = <<>>

\* C19 witness: a member with a strike and no local ban joined a server that
\* has a channel, and the one announcement pings @here.
C19_Witness ==
    /\ Handled("join")
    /\ GetChannel(update_channel, ev.server) \in Channels
    /\ CountUserStrikes(badusers, ev.server, ev.user) >= 1
    /\ ev.user \notin DOMAIN banned_users
    /\ Len(sent) = 1
    /\ sent[1].to = GetChannel(update_channel, ev.server)
    /\ HasHerePing(sent[1])

\* C20: addstrike makes the user's strikes on the server the former ones
\* followed by the new strike, one more than before, and changes the
\* strikes of no other user and of no other server.
C20_AddStrikeAppendsOne ==
    Handled("addstrike") =>
        /\ CountUserStrikes(badusers, ev.server, ev.user)
              = CountUserStrikes(b_pre, ev.server, ev.user) + 1
        /\ \E timestamp \in Timestamps, strike_text \in StrikeTexts :
              GetUserStrikes(badusers, ev.server, ev.user)
                  = GetUserStrikes(b_pre, ev.server, ev.user)
                        \o <<ManualStrike(Moderator, timestamp, strike_text)>>
        /\ \A server \in Servers, user \in Users :
              (server # ev.server \/ user # ev.user) =>
                  /\ user \in DOMAIN badusers[server] <=> user \in DOMAIN b_pre[server]
                  /\ GetUserStrikes(badusers, server, user)
                        = GetUserStrikes(b_pre, server, user)

\* C20 witness: a strike was added to a user who had another kind of strike,
\* while another user of the server and a user of another server had
\* strikes; the new one is the last.
C20_Witness ==
    /\ Handled("addstrike")
    /\ CountUserStrikes(b_pre, ev.server, ev.user) = 1
    /\ CountUserStrikes(badusers, ev.server, ev.user) = 2
    /\ GetUserStrikes(badusers, ev.server, ev.user)[1]
          # GetUserStrikes(badusers, ev.server, ev.user)[2]
    /\ GetUserStrikes(badusers, ev.server, ev.user)[1]
          = GetUserStrikes(b_pre, ev.server, ev.user)[1]
    /\ \E server \in Servers, user \in Users :
          /\ (server # ev.server \/ user # ev.user)
          /\ CountUserStrikes(badusers, server, user) >= 1

\* The sequence without the element at position n.
WithoutPosition(seq, n) == SubSeq(seq, 1, n - 1) \o SubSeq(seq, n + 1, Len(seq))

\* The reply 'Strike not found' was said.
SaidStrikeNotFound ==
    /\ Len(sent) = 1
    /\ sent[1] = Message("ctx", <<"Strike not found for ", ev.user>>)

\* C21 (the claim as stated): deletestrike with a number n from 1 to the
\* number of the user's strikes stores the former list without position n,
\* the other strikes in their order, identical texts or not.
C21_DeletesTheNthStrike ==
    (/\ Handled("deletestrike")
     /\ ev.num >= 1
     /\ ev.num <= Len(GetUserStrikes(b_pre, ev.server, ev.user)))
        => GetUserStrikes(badusers, ev.server, ev.user)
              = WithoutPosition(GetUserStrikes(b_pre, ev.server, ev.user), ev.num)

\* C22 (the claim as stated): deletestrike with a number that designates no
\* strike of the user (below 1, above the number of strikes, or no strikes)
\* says 'Strike not found' and leaves the user's strikes as they were.
C22_BadNumberIsNotFound ==
    (/\ Handled("deletestrike")
     /\ \/ ev.num < 1
        \/ ev.num > Len(GetUserStrikes(b_pre, ev.server, ev.user)))
        => /\ SaidStrikeNotFound
           /\ GetUserStrikes(badusers, ev.server, ev.user)
                 = GetUserStrikes(b_pre, ev.server, ev.user)

\* The last n elements of a sequence, all of them when it has fewer.
LastN(seq, n) ==
    IF Len(seq) <= n THEN seq ELSE SubSeq(seq, Len(seq) - n + 1, Len(seq))

\* The messages an automatic strike quotes.
Quoted(strike) == strike[5]

\* The last strike of a user on a server.
LastStrike(bu, server, user) ==
    GetUserStrikes(bu, server, user)[CountUserStrikes(bu, server, user)]

\* The log of every author is the last LOGS_PER_USER of the author's
\* server-channel messages, in arrival order; the bot has none.
LogIsRecent ==
    \A a \in Authors :
        /\ Len(logs[a]) <= LOGS_PER_USER
        /\ logs[a] = LastN(arrived[a], LOGS_PER_USER)
        /\ a = BotUser => logs[a] = <<>>

\* A step in which a ban or a member update records a strike quotes the
\* member's log as it is in the state the step leaves.
StrikeQuotesLog ==
    \A server \in Servers, user \in Users :
        (/\ ev'.op \in {"ban", "update"}
         /\ CountUserStrikes(badusers', server, user)
               > CountUserStrikes(badusers, server, user))
            => Quoted(LastStrike(badusers', server, user)) = logs[user]

\* C23: a log never holds more than LOGS_PER_USER entries and always holds
\* its author's most recent messages that are neither private nor the
\* bot's, in arrival order, the oldest dropped first; an automatic strike
\* quotes exactly the member's log of the moment it is recorded.
C23_LogIsRecentAndQuoted == [](LogIsRecent) /\ [][StrikeQuotesLog]_vars

\* C23 witness: a strike was recorded automatically for a member whose
\* oldest message had been dropped from a full log, and it quotes the log.
C23_Witness ==
    /\ b_pc = "handled" /\ ev.op \in {"ban", "update"}
    /\ CountUserStrikes(badusers, ev.server, ev.user)
          > CountUserStrikes(b_pre, ev.server, ev.user)
    /\ Len(arrived[ev.user]) > LOGS_PER_USER
    /\ Len(logs[ev.user]) = LOGS_PER_USER
    /\ logs[ev.user][1] = arrived[ev.user][2]
    /\ Quoted(LastStrike(badusers, ev.server, ev.user)) = logs[ev.user]

\* The elements of a sequence.
Range(seq) == {seq[k] : k \in 1..Len(seq)}

\* The servers the running report has noted a banned or a bad user for.
NotedServers ==
    UNION {Range(report.user_id_to_ban_server[u]) \cup Range(report.user_id_to_baduser_server[u])
           : u \in Users}

\* The error message of the report about a private server.
PrivateError(server) == <<"Server '", server, "' set its strikes private">>

====
